---- MODULE Spec2Model ----
(***************************************************************************)
(* A model of funding_watch.py: the date parser, the date finder, the      *)
(* status classifier, the feed and HTML item extractors, the collector     *)
(* and the final CSV write.                                                *)
(*                                                                         *)
(* Text is a sequence of one-character strings, so that lower-casing,      *)
(* substring search, the two regular expressions and strptime are computed *)
(* on characters.  The letters a-umlaut and A-umlaut are written "ae" and  *)
(* "AE" (one element each).  A date is <<year, month, day>>; NoDate is     *)
(* Python's None.                                                          *)
(***************************************************************************)
EXTENDS Integers, Sequences, FiniteSets, TLC

\* ------------------------------------------------------------ characters

Digits == <<"0", "1", "2", "3", "4", "5", "6", "7", "8", "9">>

IsDigit(c) == \E n \in 1..10 : Digits[n] = c

DigitVal(c) == (CHOOSE n \in 1..10 : Digits[n] = c) - 1

\* str.isspace for the characters of the model's alphabet
IsSpace(c) == c = " "

\* \w of the re module: letters, digits and the underscore
IsWord(c) == c \notin {" ", ".", "-", ",", ":", "/", "+"}

UpperToLower ==
    ("A" :> "a") @@ ("B" :> "b") @@ ("C" :> "c") @@ ("D" :> "d") @@
    ("E" :> "e") @@ ("F" :> "f") @@ ("G" :> "g") @@ ("H" :> "h") @@
    ("I" :> "i") @@ ("J" :> "j") @@ ("K" :> "k") @@ ("L" :> "l") @@
    ("M" :> "m") @@ ("N" :> "n") @@ ("O" :> "o") @@ ("P" :> "p") @@
    ("Q" :> "q") @@ ("R" :> "r") @@ ("S" :> "s") @@ ("T" :> "t") @@
    ("U" :> "u") @@ ("V" :> "v") @@ ("W" :> "w") @@ ("X" :> "x") @@
    ("Y" :> "y") @@ ("Z" :> "z") @@ ("AE" :> "ae") @@ ("OE" :> "oe")

\* str.lower
Lower(text) ==
    [k \in 1..Len(text) |->
        IF text[k] \in DOMAIN UpperToLower THEN UpperToLower[text[k]] ELSE text[k]]

\* `needle in haystack` on strings
Contains(haystack, needle) ==
    \E k \in 1..(Len(haystack) - Len(needle) + 1) :
        SubSeq(haystack, k, k + Len(needle) - 1) = needle

AllDigits(s) == \A k \in 1..Len(s) : IsDigit(s[k])

RECURSIVE Num(_)
\* int() of a string of decimal digits
Num(s) ==
    IF Len(s) = 0 THEN 0
    ELSE 10 * Num(SubSeq(s, 1, Len(s) - 1)) + DigitVal(s[Len(s)])

\* str.strip
Strip(s) ==
    IF \A k \in 1..Len(s) : IsSpace(s[k]) THEN <<>>
    ELSE LET lo == CHOOSE k \in 1..Len(s) :
                     ~IsSpace(s[k]) /\ \A j \in 1..(k - 1) : IsSpace(s[j])
             hi == CHOOSE k \in 1..Len(s) :
                     ~IsSpace(s[k]) /\ \A j \in (k + 1)..Len(s) : IsSpace(s[j])
         IN  SubSeq(s, lo, hi)

\* ----------------------------------------------------------------- dates

NoDate == <<>>

IsLeap(y) == (y % 4 = 0 /\ y % 100 # 0) \/ y % 400 = 0

DaysInMonth(y, m) ==
    IF m = 2 THEN (IF IsLeap(y) THEN 29 ELSE 28)
    ELSE IF m \in {4, 6, 9, 11} THEN 30 ELSE 31

\* datetime.date(y, m, d) does not raise ValueError
ValidDate(y, m, d) ==
    /\ y \in 1..9999
    /\ m \in 1..12
    /\ d \in 1..DaysInMonth(y, m)

MakeDate(y, m, d) == IF ValidDate(y, m, d) THEN <<y, m, d>> ELSE NoDate

\* date.__lt__
DateLess(a, b) ==
    \/ a[1] < b[1]
    \/ a[1] = b[1] /\ a[2] < b[2]
    \/ a[1] = b[1] /\ a[2] = b[2] /\ a[3] < b[3]

\* the calendar day after d
NextDay(d) ==
    IF d[3] < DaysInMonth(d[1], d[2]) THEN <<d[1], d[2], d[3] + 1>>
    ELSE IF d[2] < 12 THEN <<d[1], d[2] + 1, 1>>
    ELSE <<d[1] + 1, 1, 1>>

\* -------------------------------------------------------------- strptime

\* v is <a digits> . <b digits> . <yl digits>
DMYShape(v, a, b, yl) ==
    /\ Len(v) = a + b + yl + 2
    /\ AllDigits(SubSeq(v, 1, a))
    /\ v[a + 1] = "."
    /\ AllDigits(SubSeq(v, a + 2, a + b + 1))
    /\ v[a + b + 2] = "."
    /\ AllDigits(SubSeq(v, a + b + 3, a + b + yl + 2))

\* the numbers of the three fields of a string of that shape
DMYFields(v, yl) ==
    LET p == CHOOSE q \in (1..2) \X (1..2) : DMYShape(v, q[1], q[2], yl)
    IN  << Num(SubSeq(v, 1, p[1])),
           Num(SubSeq(v, p[1] + 2, p[1] + p[2] + 1)),
           Num(SubSeq(v, p[1] + p[2] + 3, Len(v))) >>

HasDMYShape(v, yl) == \E q \in (1..2) \X (1..2) : DMYShape(v, q[1], q[2], yl)

\* datetime.strptime(v, "%d.%m.%Y").date(), NoDate for ValueError
StrpDMY4(v) ==
    IF HasDMYShape(v, 4)
    THEN LET f == DMYFields(v, 4) IN MakeDate(f[3], f[2], f[1])
    ELSE NoDate

\* a changed CenturyOf: every 2-digit year is taken to be in 2000..2099
CenturyOf_Always2000(yy) == 2000 + yy

\* %y: 00..68 are 2000..2068 and 69..99 are 1969..1999
CenturyOf(yy) == IF yy <= 68 THEN 2000 + yy ELSE 1900 + yy

\* datetime.strptime(v, "%d.%m.%y").date(), NoDate for ValueError
StrpDMY2(v) ==
    IF HasDMYShape(v, 2)
    THEN LET f == DMYFields(v, 2) IN MakeDate(CenturyOf(f[3]), f[2], f[1])
    ELSE NoDate

\* v is <4 digits> - <b digits> - <day field>, the day field being c digits
\* or, as %d allows, a space and one digit (sp = 1)
ISOShape(v, b, c, sp) ==
    /\ Len(v) = 4 + 1 + b + 1 + sp + c
    /\ AllDigits(SubSeq(v, 1, 4))
    /\ v[5] = "-"
    /\ AllDigits(SubSeq(v, 6, 5 + b))
    /\ v[6 + b] = "-"
    /\ sp = 1 => (c = 1 /\ v[7 + b] = " ")
    /\ AllDigits(SubSeq(v, 7 + b + sp, 6 + b + sp + c))

ISOShapes == (1..2) \X (1..2) \X (0..1)

\* datetime.strptime(v, "%Y-%m-%d").date(), NoDate for ValueError
StrpISO(v) ==
    IF \E q \in ISOShapes : ISOShape(v, q[1], q[2], q[3])
    THEN LET q == CHOOSE r \in ISOShapes : ISOShape(v, r[1], r[2], r[3])
         IN  MakeDate(Num(SubSeq(v, 1, 4)),
                      Num(SubSeq(v, 6, 5 + q[1])),
                      Num(SubSeq(v, 7 + q[1] + q[3], Len(v))))
    ELSE NoDate

\* re.fullmatch(r"(\d{1,2})\.(\d{1,2})\.(\d{4})", v) and date(year, month, day)
FullmatchDMY(v) ==
    IF HasDMYShape(v, 4)
    THEN LET f == DMYFields(v, 4) IN MakeDate(f[3], f[2], f[1])
    ELSE NoDate

parse_date_string(value) ==
    LET v == Strip(value)
    IN  IF StrpDMY4(v) # NoDate THEN StrpDMY4(v)
        ELSE IF StrpDMY2(v) # NoDate THEN StrpDMY2(v)
        ELSE IF StrpISO(v) # NoDate THEN StrpISO(v)
        ELSE FullmatchDMY(v)

\* ----------------------------------------------------------- date finder

\* \b between text[k] and text[k + 1] (k = 0 and k = Len(text) are the ends)
Boundary(text, k) ==
    LET left  == k >= 1 /\ IsWord(text[k])
        right == k + 1 <= Len(text) /\ IsWord(text[k + 1])
    IN  left # right

\* the length of the match of \b\d{1,2}\.\d{1,2}\.\d{4}\b that starts at
\* text[i], 0 when there is none
DMYMatchLen(text, i) ==
    IF \E q \in (1..2) \X (1..2) :
          /\ i + q[1] + q[2] + 5 <= Len(text)
          /\ DMYShape(SubSeq(text, i, i + q[1] + q[2] + 5), q[1], q[2], 4)
          /\ Boundary(text, i - 1)
          /\ Boundary(text, i + q[1] + q[2] + 5)
    THEN LET q == CHOOSE r \in (1..2) \X (1..2) :
                    /\ i + r[1] + r[2] + 5 <= Len(text)
                    /\ DMYShape(SubSeq(text, i, i + r[1] + r[2] + 5), r[1], r[2], 4)
                    /\ Boundary(text, i - 1)
                    /\ Boundary(text, i + r[1] + r[2] + 5)
         IN  q[1] + q[2] + 6
    ELSE 0

\* the length of the match of \b\d{4}-\d{2}-\d{2}\b that starts at text[i]
ISOMatchLen(text, i) ==
    IF /\ i + 9 <= Len(text)
       /\ ISOShape(SubSeq(text, i, i + 9), 2, 2, 0)
       /\ Boundary(text, i - 1)
       /\ Boundary(text, i + 9)
    THEN 10
    ELSE 0

\* re.search(pattern, text).group(0): the leftmost match, <<>> for no match
SearchDMY(text) ==
    IF \E i \in 1..Len(text) : DMYMatchLen(text, i) > 0
    THEN LET i == CHOOSE k \in 1..Len(text) :
                    /\ DMYMatchLen(text, k) > 0
                    /\ \A j \in 1..(k - 1) : DMYMatchLen(text, j) = 0
         IN  SubSeq(text, i, i + DMYMatchLen(text, i) - 1)
    ELSE <<>>

SearchISO(text) ==
    IF \E i \in 1..Len(text) : ISOMatchLen(text, i) > 0
    THEN LET i == CHOOSE k \in 1..Len(text) :
                    /\ ISOMatchLen(text, k) > 0
                    /\ \A j \in 1..(k - 1) : ISOMatchLen(text, j) = 0
         IN  SubSeq(text, i, i + 9)
    ELSE <<>>

\* the loop body of find_date_in_text for one pattern: the parsed match, or
\* NoDate when the pattern does not match or its match does not parse
TryPattern(match) ==
    IF match = <<>> THEN NoDate ELSE parse_date_string(match)

\* a changed find_date_in_text: the first pattern that matches decides
find_date_in_text_FirstMatch(text) ==
    IF SearchDMY(text) # <<>> THEN TryPattern(SearchDMY(text))
    ELSE TryPattern(SearchISO(text))

find_date_in_text(text) ==
    LET first == TryPattern(SearchDMY(text))
    IN  IF first # NoDate THEN first
        ELSE TryPattern(SearchISO(text))

\* ------------------------------------------------------ status classifier

CLOSED_SIGNALS == {
    <<"h", "a", "k", "u", " ", "p", "ae", "ae", "t", "t", "y", "n", "y", "t">>,
    <<"h", "a", "k", "u", " ", "o", "n", " ", "p", "ae", "ae", "t", "t", "y", "n", "y", "t">>,
    <<"e", "i", " ", "h", "a", "e", "t", "t", "a", "v", "i", "s", "s", "a">>,
    <<"h", "a", "k", "u", "a", "i", "k", "a", " ", "p", "ae", "ae", "t", "t", "y", "i">>,
    <<"s", "u", "l", "j", "e", "t", "t", "u">>,
    <<"c", "l", "o", "s", "e", "d">>,
    <<"a", "p", "p", "l", "i", "c", "a", "t", "i", "o", "n", " ", "p", "e", "r", "i", "o", "d", " ", "e", "n", "d", "e", "d">>,
    <<"n", "o", " ", "l", "o", "n", "g", "e", "r", " ", "a", "c", "c", "e", "p", "t", "i", "n", "g", " ", "a", "p", "p", "l", "i", "c", "a", "t", "i", "o", "n", "s">>,
    <<"d", "e", "a", "d", "l", "i", "n", "e", " ", "p", "a", "s", "s", "e", "d">>
}

\* a changed HasClosedSignal: the text is not lower-cased
HasClosedSignal_CaseSensitive(text) ==
    \E signal \in CLOSED_SIGNALS : Contains(text, signal)

\* any(signal in lowered for signal in CLOSED_SIGNALS)
HasClosedSignal(text) ==
    LET lowered == Lower(text)
    IN  \E signal \in CLOSED_SIGNALS : Contains(lowered, signal)

\* a changed ClosingDate: the explicit date string is consulted first
ClosingDate_ExplicitFirst(text, date_string) ==
    IF parse_date_string(date_string) # NoDate THEN parse_date_string(date_string)
    ELSE find_date_in_text(text)

\* find_date_in_text(text) or parse_date_string(date_string)
ClosingDate(text, date_string) ==
    LET found == find_date_in_text(text)
    IN  IF found # NoDate THEN found ELSE parse_date_string(date_string)

\* a changed detect_status: a closing date of today is closed already
detect_status_Inclusive(text, date_string, day) ==
    IF HasClosedSignal(text) THEN "closed"
    ELSE LET closing_date == ClosingDate(text, date_string)
         IN  IF closing_date # NoDate
             THEN (IF ~DateLess(day, closing_date) THEN "closed" ELSE "open")
             ELSE "unknown"

\* detect_status, day being the value date.today() returns during the call
detect_status(text, date_string, day) ==
    IF HasClosedSignal(text) THEN "closed"
    ELSE LET closing_date == ClosingDate(text, date_string)
         IN  IF closing_date # NoDate
             THEN (IF DateLess(closing_date, day) THEN "closed" ELSE "open")
             ELSE "unknown"

\* a changed is_open: nothing is filtered
is_open_Always(text, date_string, day) == TRUE

\* a changed is_open: only open items are kept
is_open_OpenOnly(text, date_string, day) ==
    detect_status(text, date_string, day) = "open"

is_open(text, date_string, day) ==
    detect_status(text, date_string, day) \in {"open", "unknown"}

\* ------------------------------------------------------------ formatting

\* two decimal digits, zero-padded
Pad2(n) == <<Digits[((n \div 10) % 10) + 1], Digits[(n % 10) + 1]>>

\* four decimal digits, zero-padded
Pad4(n) == Pad2(n \div 100) \o Pad2(n % 100)

\* decimal digits without padding, for 1..99
Bare(n) == IF n < 10 THEN <<Digits[n + 1]>> ELSE Pad2(n)

\* date.isoformat()
FormatISO(d) == Pad4(d[1]) \o <<"-">> \o Pad2(d[2]) \o <<"-">> \o Pad2(d[3])

\* the three literal formats of parse_date_string's docstring and format list:
\* day.month.year with or without leading zeros, with a 4-digit or a
\* 2-digit year, and ISO
Formats == {"d.m.Y", "dd.mm.Y", "d.m.y", "dd.mm.y", "Y-m-d"}

Format(d, fmt) ==
    CASE fmt = "d.m.Y"   -> Bare(d[3]) \o <<".">> \o Bare(d[2]) \o <<".">> \o Pad4(d[1])
      [] fmt = "dd.mm.Y" -> Pad2(d[3]) \o <<".">> \o Pad2(d[2]) \o <<".">> \o Pad4(d[1])
      [] fmt = "d.m.y"   -> Bare(d[3]) \o <<".">> \o Bare(d[2]) \o <<".">> \o Pad2(d[1] % 100)
      [] fmt = "dd.mm.y" -> Pad2(d[3]) \o <<".">> \o Pad2(d[2]) \o <<".">> \o Pad2(d[1] % 100)
      [] fmt = "Y-m-d"   -> FormatISO(d)

\* ----------------------------------------------------------------- bounds

\* the most sources in the source list
MaxSources == 2

\* the longest feed a source serves in a whole run
MaxFeed == 1

\* the longest feed served to the feed extractor on its own
MaxEntries == 6

\* the most midnights that pass during a run
MaxTicks == 1

\* the most fragments a classified text is made of
MaxFrags == 3

\* feed.entries[:5]
FeedCap == 5

\* --------------------------------------------------------- the environment

Today0 == <<2026, 2, 14>>

StartDays == {<<2026, 2, 14>>, <<2026, 2, 28>>}

\* what a feed entry holds besides its link: a closed call, a call with a
\* deadline in its summary (and an older published date), and a notice with
\* no date at all
EntryKinds == {
    [title |-> <<"G", "r", "a", "n", "t">>,
     summary |-> <<"A", "p", "p", "l", "i", "c", "a", "t", "i", "o", "n", " ", "p", "e", "r", "i", "o", "d", " ", "e", "n", "d", "e", "d">>,
     published |-> <<"S", "a", "t", ",", " ", "1", "4", " ", "F", "e", "b", " ", "2", "0", "2", "6">>],
    [title |-> <<"C", "a", "l", "l">>,
     summary |-> <<"D", "L", " ", "1", "4", ".", "2", ".", "2", "0", "2", "6">>,
     published |-> <<"2", "0", "2", "6", "-", "0", "1", "-", "0", "5">>],
    [title |-> <<"N", "e", "w", "s">>,
     summary |-> <<>>,
     published |-> <<>>]
}

\* feedparser's entry: the k-th entry of a feed links to its own item
Entry(kind, k) ==
    [title |-> kind.title, link |-> k, published |-> kind.published,
     summary |-> kind.summary]

\* the feeds of at most n entries
Feeds(n) ==
    UNION { { [k \in 1..m |-> Entry(kinds[k], k)] : kinds \in [1..m -> EntryKinds] }
            : m \in 0..n }

\* a fetched page: its title, its first link (0 is the source itself) and
\* its visible text
Pages == {
    [title |-> <<"R", "a", "h", "o", "i", "t", "u", "s">>, link |-> 0,
     text |-> <<"H", "a", "k", "u", "a", "i", "k", "a", ":", " ", "1", "4", ".", "2", ".", "2", "0", "2", "0">>],
    [title |-> <<"H", "a", "k", "u">>, link |-> 1,
     text |-> <<"H", "a", "k", "u", " ", "1", "4", ".", "2", ".", "2", "0", "2", "6">>],
    [title |-> <<"N", "o", " ", "t", "i", "t", "l", "e">>, link |-> 0,
     text |-> <<"R", "a", "h", "o", "i", "t", "u", "s">>],
    [title |-> <<"H", "a", "k", "u">>, link |-> 1,
     text |-> <<"H", "a", "k", "u", " ", "o", "n", " ", "p", "ae", "ae", "t", "t", "y", "n", "y", "t">>]
}

Fragments == {
    <<" ">>,
    <<"H", "a", "k", "u">>,
    <<"C", "L", "O", "S", "E", "D">>,
    <<"1", "4", ".", "2", ".", "2", "0", "2", "6">>,
    <<"3", "1", ".", "2", ".", "2", "0", "2", "6">>,
    <<"2", "0", "2", "6", "-", "0", "3", "-", "0", "1">>,
    <<"1", "4", ".", "2", ".", "2", "0">>
}

RECURSIVE Join(_)
\* the concatenation of a sequence of strings
Join(parts) ==
    IF Len(parts) = 0 THEN <<>> ELSE Head(parts) \o Join(Tail(parts))

Texts == UNION { { Join(parts) : parts \in [1..n -> Fragments] } : n \in 0..MaxFrags }

DateStrings == {
    <<>>,
    <<" ", "1", ".", "1", ".", "2", "0", "2", "0", " ">>,
    <<"2", "0", "2", "6", "-", "0", "3", "-", "0", "1">>,
    <<"S", "a", "t", ",", " ", "1", "4", " ", "F", "e", "b", " ", "2", "0", "2", "6">>
}

Years == {1900, 1968, 1969, 1999, 2000, 2024, 2026, 2068, 2069, 2100}

Dates == { d \in Years \X (1..12) \X (1..31) : ValidDate(d[1], d[2], d[3]) }

\* ------------------------------------------------------------------ state

VARIABLES
    today,        \* the value date.today() returns now
    ticks,        \* the midnights passed since the start
    sources,      \* main: the list read_sources returned
    feedBound,    \* the longest feed the sources serve in this run
    pc,           \* the position of the run
    i,            \* collect_rows: the index of url in sources
    feed,         \* parse_rss: feed.entries
    j,            \* parse_rss: the index of entry in feed.entries[:5]
    rss_rows,     \* parse_rss: rows, then collect_rows: rss_rows
    status,       \* parse_rss, parse_html: status
    page,         \* parse_html: the parsed response
    rows,         \* collect_rows: rows
    csv,          \* the lines of the output file
    writes,       \* how often write_csv has run
    printed,      \* the row count main printed, -1 before
    usable,       \* history: the sources whose feed had at least one entry
    htmlCalled,   \* history: the sources parse_html was called for
    fetchFailed,  \* history: the sources whose page fetch raised
    detectDay,    \* history: today at the last detect_status call
    keepDay,      \* history: today at the last is_open call
    text,         \* a classification on its own: the text
    date_string,  \* ... the explicit date string
    found,        \* ... the result of find_date_in_text / parse_date_string
    verdict,      \* ... the result of detect_status
    kept,         \* ... the result of is_open
    lit,          \* a round trip: the date written and the format used
    ppc           \* the position of the classification or the round trip

vars == << today, ticks, sources, feedBound, pc, i, feed, j, rss_rows, status,
           page, rows, csv, writes, printed, usable, htmlCalled, fetchFailed,
           detectDay, keepDay, text, date_string, found, verdict, kept, lit, ppc >>

runVars == << sources, feedBound, pc, i, feed, j, rss_rows, status, page, rows,
              csv, writes, printed, usable, htmlCalled, fetchFailed >>

pureVars == << text, date_string, found, verdict, kept, lit, ppc >>

NoPage == [title |-> <<>>, link |-> 0, text |-> <<>>]

\* write_csv: fieldnames
Header == <<"source_url", "title", "link", "date", "status">>

RunIdle ==
    /\ sources = <<>> /\ feedBound = 0 /\ pc = "idle" /\ i = 0
    /\ feed = <<>> /\ j = 0 /\ rss_rows = <<>> /\ status = "none"
    /\ page = NoPage /\ rows = <<>> /\ csv = <<>> /\ writes = 0
    /\ printed = -1 /\ usable = {} /\ htmlCalled = {} /\ fetchFailed = {}

PureIdle ==
    /\ text = <<>> /\ date_string = <<>> /\ found = NoDate
    /\ verdict = "none" /\ kept = FALSE /\ lit = <<>> /\ ppc = "idle"

\* main after read_sources: n distinct sources, feeds of at most b entries
RunStart(n, b) ==
    /\ sources = [k \in 1..n |-> k]
    /\ feedBound = b
    /\ pc = "loop" /\ i = 0
    /\ feed = <<>> /\ j = 0 /\ rss_rows = <<>> /\ status = "none"
    /\ page = NoPage /\ rows = <<>> /\ csv = <<>> /\ writes = 0
    /\ printed = -1 /\ usable = {} /\ htmlCalled = {} /\ fetchFailed = {}
    /\ today = Today0 /\ ticks = 0 /\ detectDay = Today0 /\ keepDay = Today0
    /\ PureIdle

Init == \E n \in 0..MaxSources : RunStart(n, MaxFeed)

InitFeed == RunStart(1, MaxEntries)

\* ---------------------------------------------------------------- the run

\* midnight passes
Tick ==
    /\ ticks < MaxTicks
    /\ today' = NextDay(today)
    /\ ticks' = ticks + 1
    /\ UNCHANGED << runVars, pureVars, detectDay, keepDay >>

\* collect_rows: for url in sources
NextSource ==
    /\ pc = "loop" /\ i < Len(sources)
    /\ i' = i + 1
    /\ pc' = "parse_rss"
    /\ UNCHANGED << today, ticks, sources, feedBound, feed, j, rss_rows, status,
                    page, rows, csv, writes, printed, usable, htmlCalled,
                    fetchFailed, detectDay, keepDay, pureVars >>

\* a changed Considered: the cap is missing
Considered_All(entries) == entries

\* feed.entries[:5]
Considered(entries) ==
    SubSeq(entries, 1, IF Len(entries) < FeedCap THEN Len(entries) ELSE FeedCap)

\* parse_rss: feedparser.parse(url) gives no entries: return []
ParseRssNoEntries ==
    /\ pc = "parse_rss"
    /\ feed' = <<>>
    /\ rss_rows' = <<>>
    /\ j' = 0
    /\ pc' = "dispatch"
    /\ UNCHANGED << today, ticks, sources, feedBound, i, status, page, rows, csv,
                    writes, printed, usable, htmlCalled, fetchFailed, detectDay, keepDay,
                    pureVars >>

\* parse_rss: feedparser.parse(url) gives entries: rows = [] and the loop starts
ParseRssEntries ==
    /\ pc = "parse_rss"
    /\ \E f \in Feeds(feedBound) :
          /\ Len(f) > 0
          /\ feed' = f
    /\ rss_rows' = <<>>
    /\ j' = 1
    /\ usable' = usable \cup {i}
    /\ pc' = "rss_detect"
    /\ UNCHANGED << today, ticks, sources, feedBound, i, status, page, rows, csv,
                    writes, printed, htmlCalled, fetchFailed, detectDay, keepDay, pureVars >>

\* f"{title} {summary}".strip()
CombinedText(entry) == Strip(entry.title \o <<" ">> \o entry.summary)

\* the row parse_rss appends for an entry
RssRow(url, entry, st, day) ==
    [source_url |-> url, title |-> entry.title, link |-> entry.link,
     date |-> IF entry.published # <<>> THEN entry.published ELSE FormatISO(day),
     status |-> st]

\* parse_rss: status = detect_status(combined_text, published)
RssDetect ==
    /\ pc = "rss_detect"
    /\ status' = detect_status(CombinedText(feed[j]), feed[j].published, today)
    /\ detectDay' = today
    /\ pc' = "rss_keep"
    /\ UNCHANGED << today, ticks, sources, feedBound, i, feed, j, rss_rows, page,
                    rows, csv, writes, printed, usable, htmlCalled, fetchFailed,
                    keepDay, pureVars >>

\* parse_rss: if is_open(combined_text, published): rows.append(...), and the
\* loop goes on or the function returns
RssKeep ==
    /\ pc = "rss_keep"
    /\ rss_rows' =
          IF is_open(CombinedText(feed[j]), feed[j].published, today)
          THEN Append(rss_rows, RssRow(sources[i], feed[j], status, today))
          ELSE rss_rows
    /\ j' = j + 1
    /\ keepDay' = today
    /\ pc' = IF j < Len(Considered(feed)) THEN "rss_detect" ELSE "dispatch"
    /\ UNCHANGED << today, ticks, sources, feedBound, i, feed, status, page, rows,
                    csv, writes, printed, usable, htmlCalled, fetchFailed,
                    detectDay, pureVars >>

\* collect_rows: if rss_rows: rows.extend(rss_rows)
UseRssRows ==
    /\ pc = "dispatch"
    /\ rss_rows # <<>>
    /\ rows' = rows \o rss_rows
    /\ pc' = "loop"
    /\ UNCHANGED << today, ticks, sources, feedBound, i, feed, j, rss_rows, status,
                    page, csv, writes, printed, usable, htmlCalled, fetchFailed,
                    detectDay, keepDay, pureVars >>

\* collect_rows: else: parse_html(url) is called
CallParseHtml ==
    /\ pc = "dispatch"
    /\ rss_rows = <<>>
    /\ htmlCalled' = htmlCalled \cup {i}
    /\ pc' = "parse_html"
    /\ UNCHANGED << today, ticks, sources, feedBound, i, feed, j, rss_rows, status,
                    page, rows, csv, writes, printed, usable, fetchFailed,
                    detectDay, keepDay, pureVars >>

\* a changed HtmlFetchFail: the exception is not caught and ends the run
HtmlFetchFail_Raises ==
    /\ pc = "parse_html"
    /\ fetchFailed' = fetchFailed \cup {i}
    /\ pc' = "raised"
    /\ UNCHANGED << today, ticks, sources, feedBound, i, feed, j, rss_rows, status,
                    page, rows, csv, writes, printed, usable, htmlCalled, detectDay,
                    keepDay, pureVars >>

\* parse_html: requests.get or raise_for_status raises RequestException:
\* return [], and collect_rows extends rows by nothing
HtmlFetchFail ==
    /\ pc = "parse_html"
    /\ fetchFailed' = fetchFailed \cup {i}
    /\ rows' = rows \o <<>>
    /\ pc' = "loop"
    /\ UNCHANGED << today, ticks, sources, feedBound, i, feed, j, rss_rows, status,
                    page, csv, writes, printed, usable, htmlCalled, detectDay, keepDay,
                    pureVars >>

\* parse_html: the fetch succeeds and the page is parsed
HtmlFetchOk ==
    /\ pc = "parse_html"
    /\ \E p \in Pages : page' = p
    /\ pc' = "html_detect"
    /\ UNCHANGED << today, ticks, sources, feedBound, i, feed, j, rss_rows, status,
                    rows, csv, writes, printed, usable, htmlCalled, fetchFailed,
                    detectDay, keepDay, pureVars >>

\* parse_html: status = detect_status(page_text, "")
HtmlDetect ==
    /\ pc = "html_detect"
    /\ status' = detect_status(page.text, <<>>, today)
    /\ detectDay' = today
    /\ pc' = "html_keep"
    /\ UNCHANGED << today, ticks, sources, feedBound, i, feed, j, rss_rows, page,
                    rows, csv, writes, printed, usable, htmlCalled, fetchFailed,
                    keepDay, pureVars >>

\* the row parse_html returns for a page
HtmlRow(url, p, st, day) ==
    [source_url |-> url, title |-> p.title,
     link |-> IF p.link = 0 THEN url ELSE p.link,
     date |-> FormatISO(day), status |-> st]

\* parse_html: if not is_open(page_text, ""): return [], else the one row;
\* collect_rows extends rows by it
HtmlKeep ==
    /\ pc = "html_keep"
    /\ rows' =
          IF ~is_open(page.text, <<>>, today)
          THEN rows \o <<>>
          ELSE rows \o << HtmlRow(sources[i], page, status, today) >>
    /\ keepDay' = today
    /\ pc' = "loop"
    /\ UNCHANGED << today, ticks, sources, feedBound, i, feed, j, rss_rows, status,
                    page, csv, writes, printed, usable, htmlCalled, fetchFailed,
                    detectDay, pureVars >>

\* collect_rows returns; main: write_csv(OUTPUT_FILE, rows)
WriteCsv ==
    /\ pc = "loop" /\ i = Len(sources)
    /\ csv' = <<Header>> \o rows
    /\ writes' = writes + 1
    /\ pc' = "print"
    /\ UNCHANGED << today, ticks, sources, feedBound, i, feed, j, rss_rows, status,
                    page, rows, printed, usable, htmlCalled, fetchFailed,
                    detectDay, keepDay, pureVars >>

\* main: print(f"Done. Saved {len(rows)} rows to {OUTPUT_FILE}")
PrintDone ==
    /\ pc = "print"
    /\ printed' = Len(rows)
    /\ pc' = "done"
    /\ UNCHANGED << today, ticks, sources, feedBound, i, feed, j, rss_rows, status,
                    page, rows, csv, writes, usable, htmlCalled, fetchFailed,
                    detectDay, keepDay, pureVars >>

\* the steps of the program
Step ==
    \/ NextSource
    \/ ParseRssNoEntries
    \/ ParseRssEntries
    \/ RssDetect
    \/ RssKeep
    \/ UseRssRows
    \/ CallParseHtml
    \/ HtmlFetchFail
    \/ HtmlFetchOk
    \/ HtmlDetect
    \/ HtmlKeep
    \/ WriteCsv
    \/ PrintDone

Next == Step \/ Tick

Spec == Init /\ [][Next]_vars

\* the positions at which the program has a step to take
Running ==
    pc \in {"loop", "parse_rss", "rss_detect", "rss_keep", "dispatch",
            "parse_html", "html_detect", "html_keep", "print"}

\* the program leaves its position: what every step of the program does and
\* a tick does not
Proceed ==
    /\ Running
    /\ pc' \in {"loop", "parse_rss", "rss_detect", "rss_keep", "dispatch",
                "parse_html", "html_detect", "html_keep", "print", "done"}

\* the run is sequential and every call returns: a program that has a step
\* to take takes it, however many midnights pass
FairSpec == Init /\ [][Next]_vars /\ WF_pc(Proceed)

\* parse_rss on one source whose feed has up to MaxEntries entries
SpecFeed == InitFeed /\ [][Next]_vars

\* ------------------------------------------------- a classification alone

\* a text, an explicit date string and a day
InitStatus ==
    /\ RunIdle
    /\ text \in Texts
    /\ date_string \in DateStrings
    /\ today \in StartDays
    /\ ticks = 0 /\ detectDay = today /\ keepDay = today
    /\ found = NoDate /\ verdict = "none" /\ kept = FALSE /\ lit = <<>>
    /\ ppc = "start"

\* find_date_in_text(text)
FindDate ==
    /\ ppc = "start"
    /\ found' = find_date_in_text(text)
    /\ ppc' = "found"
    /\ UNCHANGED << today, ticks, runVars, detectDay, keepDay, text, date_string,
                    verdict, kept, lit >>

\* detect_status(text, date_string)
DetectStatus ==
    /\ ppc = "found"
    /\ verdict' = detect_status(text, date_string, today)
    /\ detectDay' = today
    /\ ppc' = "classified"
    /\ UNCHANGED << today, ticks, runVars, keepDay, text, date_string, found, kept,
                    lit >>

\* is_open(text, date_string)
IsOpen ==
    /\ ppc = "classified"
    /\ kept' = is_open(text, date_string, today)
    /\ keepDay' = today
    /\ ppc' = "decided"
    /\ UNCHANGED << today, ticks, runVars, detectDay, text, date_string, found,
                    verdict, lit >>

NextStatus == FindDate \/ DetectStatus \/ IsOpen \/ Tick

SpecStatus == InitStatus /\ [][NextStatus]_vars

\* ------------------------------------------------------- a round trip alone

\* a calendar date and one of the literal formats
InitDate ==
    /\ RunIdle
    /\ lit \in [date : Dates, fmt : Formats]
    /\ today = Today0 /\ ticks = 0 /\ detectDay = Today0 /\ keepDay = Today0
    /\ text = <<>> /\ date_string = <<>> /\ found = NoDate
    /\ verdict = "none" /\ kept = FALSE
    /\ ppc = "write"

\* the date is written in the format
WriteDate ==
    /\ ppc = "write"
    /\ date_string' = Format(lit.date, lit.fmt)
    /\ ppc' = "parse"
    /\ UNCHANGED << today, ticks, runVars, detectDay, keepDay, text, found, verdict,
                    kept, lit >>

\* parse_date_string(date_string)
ParseDate ==
    /\ ppc = "parse"
    /\ found' = parse_date_string(date_string)
    /\ ppc' = "parsed"
    /\ UNCHANGED << today, ticks, runVars, detectDay, keepDay, text, date_string,
                    verdict, kept, lit >>

NextDate == WriteDate \/ ParseDate

SpecDate == InitDate /\ [][NextDate]_vars

\* ----------------------------------------------------------------- claims

\* the lower-cased text holds a closing-signal phrase
SignalIn(t) == \E signal \in CLOSED_SIGNALS : Contains(Lower(t), signal)

\* closed before the day, open from the day on
Decide(d, day) == IF DateLess(d, day) THEN "closed" ELSE "open"

\* the dates written in t as whole words, in any format the parser reads
DatesIn(t) ==
    { parse_date_string(SubSeq(t, q[1], q[2])) :
        q \in { r \in (1..Len(t)) \X (1..Len(t)) :
                  /\ r[1] <= r[2] /\ r[2] - r[1] <= 9
                  /\ Boundary(t, r[1] - 1) /\ Boundary(t, r[2]) } } \ {NoDate}

\* the entry is not closed on the day
NonClosed(entry, day) ==
    detect_status(CombinedText(entry), entry.published, day) # "closed"

\* C1: every row collected so far, in parse_rss's list, in collect_rows's list
\* and in the written file, has status open or unknown, never closed; also
\* when midnight passes between detect_status and is_open for an item.
C1_NoClosedRow ==
    /\ \A k \in 1..Len(rss_rows) : rss_rows[k].status \in {"open", "unknown"}
    /\ \A k \in 1..Len(rows) : rows[k].status \in {"open", "unknown"}
    /\ \A k \in 2..Len(csv) : csv[k].status \in {"open", "unknown"}

\* an entry was kept although midnight passed between its two classifications
C1_Witness ==
    /\ pc = "dispatch"
    /\ detectDay # keepDay
    /\ rss_rows # <<>>
    /\ rss_rows[Len(rss_rows)].link = Len(feed)

\* C2: once detect_status has returned for a text whose lower-cased form
\* holds a closing-signal phrase, its result is closed, whatever dates the
\* text holds, whatever the explicit date string and whatever the day.
C2_SignalDominates ==
    (ppc \in {"classified", "decided"} /\ SignalIn(text)) => verdict = "closed"

\* a text with a closing signal in upper case and a date that is not past
C2_Witness ==
    /\ ppc = "classified"
    /\ SignalIn(text) /\ ~Contains(text, <<"c", "l", "o", "s", "e", "d">>)
    /\ found # NoDate /\ ~DateLess(found, detectDay)
    /\ parse_date_string(date_string) # NoDate
    /\ ~DateLess(parse_date_string(date_string), detectDay)

\* C3 as stated: with no closing signal, a text that holds a date before the
\* day is closed and a text that holds a date on or after the day is open,
\* for any text.
C3_AnyDateDecides ==
    (ppc = "classified" /\ ~SignalIn(text)) =>
        /\ (\E d \in DatesIn(text) : DateLess(d, detectDay)) => verdict = "closed"
        /\ (\E d \in DatesIn(text) : ~DateLess(d, detectDay)) => verdict = "open"

\* C3 as amended: with no closing signal, when the date finder finds a date
\* in the text, the result is closed if that date is before the day of the
\* classification and open otherwise.
C3_FoundDateDecides ==
    (ppc \in {"classified", "decided"} /\ ~SignalIn(text) /\ found # NoDate) =>
        verdict = Decide(found, detectDay)

\* a text with a past and a future date, decided by the one the finder found
C3_Witness ==
    /\ ppc = "classified"
    /\ ~SignalIn(text)
    /\ found # NoDate
    /\ \E d \in DatesIn(text) : DateLess(d, detectDay)
    /\ \E d \in DatesIn(text) : ~DateLess(d, detectDay)
    /\ verdict = "open"

\* C4: with no closing signal, no date found in the text and no date parsed
\* from the explicit date string, detect_status returns unknown and is_open
\* returns True.
C4_UnknownIsKept ==
    ( /\ ppc = "decided"
      /\ ~SignalIn(text)
      /\ found = NoDate
      /\ parse_date_string(date_string) = NoDate ) =>
        (verdict = "unknown" /\ kept = TRUE)

\* a text that holds digits and an unparseable date string, after midnight
C4_Witness ==
    /\ ppc = "decided"
    /\ ~SignalIn(text)
    /\ found = NoDate
    /\ parse_date_string(date_string) = NoDate
    /\ date_string # <<>>
    /\ Contains(text, <<"1", "4", ".", "2", ".", "2", "0">>)
    /\ detectDay # keepDay
    /\ kept = TRUE

\* C5 as stated: the first pattern that matches anywhere in the text decides:
\* the result is the parse of its match, also when that parse fails.
C5_FirstMatchGoverns ==
    ppc = "found" =>
        found = IF SearchDMY(text) # <<>> THEN parse_date_string(SearchDMY(text))
                ELSE IF SearchISO(text) # <<>> THEN parse_date_string(SearchISO(text))
                ELSE NoDate

\* C5 as amended: the result is the parse of the leftmost day.month.year
\* match when that parse succeeds; otherwise, also when the day.month.year
\* match did not parse, it is the parse of the leftmost ISO match; and no
\* date when neither pattern matches.
C5_FirstParseGoverns ==
    ppc = "found" =>
        /\ (SearchDMY(text) # <<>> /\ parse_date_string(SearchDMY(text)) # NoDate)
              => found = parse_date_string(SearchDMY(text))
        /\ (SearchDMY(text) # <<>> /\ parse_date_string(SearchDMY(text)) = NoDate
              /\ SearchISO(text) # <<>>)
              => found = parse_date_string(SearchISO(text))
        /\ (SearchDMY(text) = <<>> /\ SearchISO(text) # <<>>)
              => found = parse_date_string(SearchISO(text))
        /\ (SearchDMY(text) = <<>> /\ SearchISO(text) = <<>>) => found = NoDate

\* an invalid day.month.year date and a valid ISO date in one text
C5_Witness ==
    /\ ppc = "found"
    /\ SearchDMY(text) # <<>>
    /\ parse_date_string(SearchDMY(text)) = NoDate
    /\ SearchISO(text) # <<>>
    /\ found = parse_date_string(SearchISO(text))
    /\ found # NoDate

\* C6: parse_html is never called for a source whose feed had at least one
\* entry, also when every considered entry was filtered out.
C6_NoFallbackForUsableFeed == usable \cap htmlCalled = {}

\* C7: when parse_rss returns, its rows are entries among the first 5, in
\* feed order and at most 5, each carrying its entry's fields; every one of
\* the first 5 entries that is not closed now is among them, and every row's
\* entry was not closed when the run started (so, on a day that does not
\* change, the rows are exactly the non-closed entries of the first 5).
C7_CapThenFilter ==
    pc = "dispatch" =>
        LET n == IF Len(feed) < 5 THEN Len(feed) ELSE 5
        IN  /\ Len(rss_rows) <= 5
            /\ \A k \in 1..Len(rss_rows) :
                  /\ rss_rows[k].link \in 1..n
                  /\ rss_rows[k].title = feed[rss_rows[k].link].title
                  /\ rss_rows[k].source_url = sources[i]
                  /\ NonClosed(feed[rss_rows[k].link], Today0)
            /\ \A k \in 1..(Len(rss_rows) - 1) : rss_rows[k].link < rss_rows[k + 1].link
            /\ \A e \in 1..n :
                  NonClosed(feed[e], today) => \E k \in 1..Len(rss_rows) : rss_rows[k].link = e

\* a feed of more than 5 entries, with a closed one among the first 5 and a
\* sixth that is not closed
C7_Witness ==
    /\ pc = "dispatch"
    /\ Len(feed) > 5
    /\ \E e \in 1..5 : ~NonClosed(feed[e], Today0)
    /\ NonClosed(feed[6], today)
    /\ Len(rss_rows) = 4

\* the rows of a source
RowsOf(s) == { k \in 1..Len(rows) : rows[k].source_url = s }

\* the state of a finished run
C8_Finished ==
    pc = "done" =>
        /\ i = Len(sources)
        /\ writes = 1
        /\ csv = <<Header>> \o rows
        /\ printed = Len(rows)
        /\ \A s \in fetchFailed : RowsOf(s) = {}
        /\ \A k \in 1..(Len(rows) - 1) : rows[k].source_url <= rows[k + 1].source_url
        /\ (fetchFailed = 1..Len(sources)) => (csv = <<Header>> /\ printed = 0)

\* the sources are taken one by one in the given order, the rows only grow,
\* and what an extractor returns is appended whole
C8_InOrder ==
    /\ i' = i \/ (i' = i + 1 /\ pc' = "parse_rss")
    /\ Len(rows') >= Len(rows) /\ SubSeq(rows', 1, Len(rows)) = rows
    /\ \A k \in (Len(rows) + 1)..Len(rows') : rows'[k].source_url = sources[i]
    /\ (pc = "dispatch" /\ rss_rows # <<>> /\ pc' # pc) =>
          (rows' = rows \o rss_rows /\ pc' = "loop")
    /\ writes' >= writes

\* C8: a source whose fetch fails contributes no row and does not end the
\* run: the run reaches its end, having taken every source in order, with the
\* rows of the other sources in source order, the file written once with the
\* header (the header alone and a count of 0 when every source failed).
C8_FailedSourceSkipped ==
    /\ <>(pc = "done")
    /\ [](C8_Finished /\ (pc # "done" => writes = 0 \/ pc = "print"))
    /\ [][C8_InOrder]_vars

\* a finished run in which the first source failed and the second gave a row
C8_Witness ==
    /\ pc = "done"
    /\ 1 \in fetchFailed
    /\ RowsOf(2) # {}
    /\ Len(csv) = Len(rows) + 1

\* C9 as stated: a date written in any of the three formats parses to itself.
C9_RoundTrip ==
    ppc = "parsed" => found = lit.date

\* C9 as amended: a date written with a 4-digit year (day.month.year, with
\* or without leading zeros, or ISO) parses to itself; a date written with a
\* 2-digit year parses to itself when its year is in 1969..2068.
C9_RoundTripInWindow ==
    ( /\ ppc = "parsed"
      /\ lit.fmt \in {"d.m.Y", "dd.mm.Y", "Y-m-d"} \/ lit.date[1] \in 1969..2068 ) =>
        found = lit.date

\* a date of 1999 written with a 2-digit year and parsed
C9_Witness ==
    /\ ppc = "parsed"
    /\ lit.fmt = "d.m.y"
    /\ lit.date = <<1999, 2, 14>>
    /\ date_string = <<"1", "4", ".", "2", ".", "9", "9">>
    /\ found = lit.date

\* C10: with no closing signal, a date found in the text decides the status
\* whatever the explicit date string is; the explicit date string decides it
\* only when the text yields no date and the string parses.
C10_TextDateFirst ==
    (ppc \in {"classified", "decided"} /\ ~SignalIn(text)) =>
        /\ found # NoDate =>
              /\ verdict = Decide(found, detectDay)
              /\ \A other \in DateStrings :
                    detect_status(text, other, detectDay) = verdict
        /\ (found = NoDate /\ parse_date_string(date_string) # NoDate) =>
              verdict = Decide(parse_date_string(date_string), detectDay)

\* a text without a date and a future explicit date string: open
C10_Witness ==
    /\ ppc = "classified"
    /\ ~SignalIn(text)
    /\ found = NoDate
    /\ date_string = <<"2", "0", "2", "6", "-", "0", "3", "-", "0", "1">>
    /\ verdict = "open"

====
